---- MODULE Spec2Model ----
(***************************************************************************)
(* Fat16Reader: a read-only interpreter of a FAT16 image.                  *)
(*                                                                         *)
(* The image is a sequence of bytes (0..255); byte offset o of the Python  *)
(* code is image[o + 1] here.  Strings are sequences of code points.       *)
(* Every helper that can raise in Python returns a record                  *)
(* [err |-> <exception name or "none">, val |-> <value>].                  *)
(***************************************************************************)
EXTENDS Integers, Sequences, FiniteSets, TLC

VARIABLES
    image,                    \* self.image
    do_print_on_commands,     \* self.do_print_on_commands
    volume_id,                \* self.volume_id
    _reserved_sectors, _sector_size, _cluster_size,
    _fat_offset, _fat_size, _fat_copies,
    _root_directory_offset, _root_directory_entries, _root_directory_size,
    _clusters_offset,
    _current_root,            \* self._current_root
    _current_entries,         \* self._current_entries
    result,                   \* outcome of the last shell command
    walk_pc,                  \* position inside a direct _get_clusters_list call
    clusters_list,            \* its local clusters_list
    next_cluster_tuple,       \* its local next_cluster_tuple
    listing_source            \* where _current_entries was decoded from

geometry == <<_reserved_sectors, _sector_size, _cluster_size, _fat_offset,
              _fat_size, _fat_copies, _root_directory_offset,
              _root_directory_entries, _root_directory_size, _clusters_offset>>

walk == <<walk_pc, clusters_list, next_cluster_tuple>>

vars == <<image, do_print_on_commands, volume_id, geometry, _current_root,
          _current_entries, result, walk, listing_source>>

-----------------------------------------------------------------------------
(* Program constants *)

_entry_size == 32

_fat_cluster_read_start == 2

\* keys of Fat16Reader._attributes, in dictionary order
AttributeBits == <<1, 2, 4, 8, 16, 32>>

AttributeNames == <<"read_only", "hidden", "system", "volume_id", "directory", "archive">>

\* keys of Fat16Reader._fat_16_notable_values
_fat_16_notable_values == {0, 1, 65527, 65528, 65535}

-----------------------------------------------------------------------------
(* Python primitives *)

Ok(v) == [err |-> "none", val |-> v]

Raise(e) == [err |-> e, val |-> <<>>]

Min(a, b) == IF a < b THEN a ELSE b

\* bytes[a:b] for 0 <= a: slicing never raises, it clips to the length
Slice(img, a, b) == SubSeq(img, a + 1, Min(b, Len(img)))

\* bytes[i] for 0 <= i: raises IndexError past the end
Index(img, i) == IF i < Len(img) THEN Ok(img[i + 1]) ELSE Raise("IndexError")

\* struct.unpack("<H", b)[0] and struct.unpack("<I", b)[0]
UnpackUshort(b) ==
    IF Len(b) = 2 THEN Ok(b[1] + 256 * b[2]) ELSE Raise("struct.error")

UnpackUint(b) ==
    IF Len(b) = 4
    THEN Ok(b[1] + 256 * b[2] + 65536 * b[3] + 16777216 * b[4])
    ELSE Raise("struct.error")

IsCont(b) == b >= 128 /\ b <= 191

\* bytes.decode("utf-8"): the code points, or UnicodeDecodeError
RECURSIVE DecodeUtf8(_)
DecodeUtf8(b) ==
    IF b = <<>> THEN Ok(<<>>)
    ELSE LET b1 == b[1]
             n == IF b1 < 128 THEN 1
                  ELSE IF b1 >= 194 /\ b1 <= 223 THEN 2
                  ELSE IF b1 >= 224 /\ b1 <= 239 THEN 3
                  ELSE IF b1 >= 240 /\ b1 <= 244 THEN 4
                  ELSE 0
             wellFormed ==
                 /\ n > 0
                 /\ Len(b) >= n
                 /\ \A i \in 2..n : IsCont(b[i])
                 /\ (b1 = 224 => b[2] >= 160)
                 /\ (b1 = 237 => b[2] <= 159)
                 /\ (b1 = 240 => b[2] >= 144)
                 /\ (b1 = 244 => b[2] <= 143)
             cp == IF n = 1 THEN b1
                   ELSE IF n = 2 THEN (b1 - 192) * 64 + (b[2] - 128)
                   ELSE IF n = 3
                        THEN (b1 - 224) * 4096 + (b[2] - 128) * 64 + (b[3] - 128)
                   ELSE (b1 - 240) * 262144 + (b[2] - 128) * 4096
                        + (b[3] - 128) * 64 + (b[4] - 128)
         IN  IF ~wellFormed THEN Raise("UnicodeDecodeError")
             ELSE LET rest == DecodeUtf8(SubSeq(b, n + 1, Len(b)))
                  IN  IF rest.err # "none" THEN rest
                      ELSE Ok(<<cp>> \o rest.val)

\* the characters str.strip() removes
Whitespace ==
    (9..13) \cup (28..32) \cup {133, 160, 5760} \cup (8192..8202)
    \cup {8232, 8233, 8239, 8287, 12288}

RECURSIVE LStrip(_)
LStrip(s) ==
    IF s # <<>> /\ Head(s) \in Whitespace THEN LStrip(Tail(s)) ELSE s

RECURSIVE RStrip(_)
RStrip(s) ==
    IF s # <<>> /\ s[Len(s)] \in Whitespace
    THEN RStrip(SubSeq(s, 1, Len(s) - 1))
    ELSE s

\* str.strip()
Strip(s) == RStrip(LStrip(s))

\* x in list
In(x, list) == \E i \in DOMAIN list : list[i] = x

-----------------------------------------------------------------------------
(* Fat16Reader: decoding *)

\* self._read_ushort(offset)
_read_ushort(offset) == UnpackUshort(Slice(image, offset, offset + 2))

\* _read_boot_sector with the data area placed after root_directory_entries
\* bytes instead of root_directory_entries slots
_read_boot_sector_unscaled ==
    LET reserved == _read_ushort(14)
        sector == _read_ushort(11)
        cluster == Index(image, 13)
        fatsize == _read_ushort(22)
        copies == Index(image, 16)
        rootentries == _read_ushort(17)
        fat_offset == reserved.val * sector.val
        root_offset == fat_offset + (fatsize.val * copies.val * sector.val)
    IN  Ok([reserved_sectors |-> reserved.val,
            sector_size |-> sector.val,
            cluster_size |-> cluster.val,
            fat_offset |-> fat_offset,
            fat_size |-> fatsize.val,
            fat_copies |-> copies.val,
            root_directory_offset |-> root_offset,
            root_directory_entries |-> rootentries.val,
            root_directory_size |-> rootentries.val,
            clusters_offset |-> root_offset + rootentries.val])

\* the values _read_boot_sector computes, or the exception it raises
_read_boot_sector ==
    LET reserved == _read_ushort(14)
        sector == _read_ushort(11)
        cluster == Index(image, 13)
        fatsize == _read_ushort(22)
        copies == Index(image, 16)
        rootentries == _read_ushort(17)
        reads == <<reserved, sector, cluster, fatsize, copies, rootentries>>
        fat_offset == reserved.val * sector.val
        root_offset == fat_offset + (fatsize.val * copies.val * sector.val)
        root_size == rootentries.val * _entry_size
    IN  IF \E i \in DOMAIN reads : reads[i].err # "none"
        THEN Raise((CHOOSE r \in {reads[i] : i \in DOMAIN reads} : r.err # "none").err)
        ELSE Ok([reserved_sectors |-> reserved.val,
                 sector_size |-> sector.val,
                 cluster_size |-> cluster.val,
                 fat_offset |-> fat_offset,
                 fat_size |-> fatsize.val,
                 fat_copies |-> copies.val,
                 root_directory_offset |-> root_offset,
                 root_directory_entries |-> rootentries.val,
                 root_directory_size |-> root_size,
                 clusters_offset |-> root_offset + root_size])

\* the attribute names whose bit is set, in dictionary order
DecodeAttributes(attributes_byte) ==
    LET set == SelectSeq(<<1, 2, 3, 4, 5, 6>>,
                         LAMBDA i : (attributes_byte \div AttributeBits[i]) % 2 = 1)
    IN  [j \in 1..Len(set) |-> AttributeNames[set[j]]]

\* DirectoryEntry(...): the constructor's parameters are (.., creation_time,
\* creation_date, ..) and _read_entry passes (.., creation_date, creation_time, ..)
DirectoryEntry(filename, extension, attributes, time_arg, date_arg, cluster_number, filesize) ==
    [filename |-> filename, extension |-> extension, attributes |-> attributes,
     creation_time |-> time_arg, creation_date |-> date_arg,
     cluster_number |-> cluster_number, filesize |-> filesize]

\* self._read_entry(byte_offset)
_read_entry(byte_offset) ==
    LET name == DecodeUtf8(Slice(image, byte_offset, byte_offset + 8))
        extension == DecodeUtf8(Slice(image, byte_offset + 8, byte_offset + 11))
        attributes_byte == Index(image, byte_offset + 11)
        creation_time == _read_ushort(byte_offset + 14)
        creation_date == _read_ushort(byte_offset + 16)
        cluster_number == _read_ushort(byte_offset + 26)
        filesize == UnpackUint(Slice(image, byte_offset + 28, byte_offset + 32))
    IN  IF name.err # "none" THEN Raise(name.err)
        ELSE IF extension.err # "none" THEN Raise(extension.err)
        ELSE IF attributes_byte.err # "none" THEN Raise(attributes_byte.err)
        ELSE IF creation_time.err # "none" THEN Raise(creation_time.err)
        ELSE IF creation_date.err # "none" THEN Raise(creation_date.err)
        ELSE IF cluster_number.err # "none" THEN Raise(cluster_number.err)
        ELSE IF filesize.err # "none" THEN Raise(filesize.err)
        ELSE Ok(DirectoryEntry(Strip(name.val), Strip(extension.val),
                               DecodeAttributes(attributes_byte.val),
                               creation_date.val, creation_time.val,
                               cluster_number.val, filesize.val))

\* the while loop of _read_directory, from entry_offset with entries so far;
\* slots are the offsets of the slots decoded
RECURSIVE ReadDirectoryLoop(_, _, _)
ReadDirectoryLoop(entry_offset, entries, slots) ==
    LET first == Index(image, entry_offset)
    IN  IF first.err # "none" THEN [err |-> first.err, val |-> <<>>, slots |-> slots]
        ELSE IF first.val = 0 THEN [err |-> "none", val |-> entries, slots |-> slots]
        ELSE LET entry == _read_entry(entry_offset)
             IN  IF entry.err # "none"
                 THEN [err |-> entry.err, val |-> <<>>, slots |-> slots]
                 ELSE ReadDirectoryLoop(entry_offset + _entry_size,
                                        Append(entries, entry.val),
                                        Append(slots, entry_offset))

\* self._read_directory(offset)
_read_directory(offset) == ReadDirectoryLoop(offset, <<>>, <<>>)

-----------------------------------------------------------------------------
(* Fat16Reader: cluster chains *)

\* self._check_next_in_fat(cluster_number): (has_next_cluster, fat_16_value)
_check_next_in_fat(cluster_number) ==
    LET fat_16_value == _read_ushort(_fat_offset + cluster_number * 2)
    IN  IF fat_16_value.err # "none" THEN Raise(fat_16_value.err)
        ELSE Ok(<<fat_16_value.val \notin _fat_16_notable_values, fat_16_value.val>>)

\* the while loop of _get_clusters_list.  The next tuple is a function of the
\* cluster alone, so appending a cluster the list already holds repeats for
\* ever: the call never returns ("nontermination").
RECURSIVE GetClustersLoop(_, _)
GetClustersLoop(list, tuple) ==
    IF tuple.err # "none" THEN Raise(tuple.err)
    ELSE IF ~tuple.val[1] THEN Ok(list)
    ELSE IF In(tuple.val[2], list) THEN Raise("nontermination")
    ELSE GetClustersLoop(Append(list, tuple.val[2]), _check_next_in_fat(tuple.val[2]))

\* self._get_clusters_list(entry)
_get_clusters_list(entry) ==
    IF entry.cluster_number = 0 THEN Ok(<<>>)
    ELSE GetClustersLoop(<<entry.cluster_number>>,
                         _check_next_in_fat(entry.cluster_number))

\* cluster_start of _cd_set_current_entries and _compose_file
ClusterStart(cluster) ==
    _clusters_offset
    + _cluster_size * _sector_size * (cluster - _fat_cluster_read_start)

\* the for loop of _cd_set_current_entries from position i: entries is
\* self._current_entries so far, which an exception leaves as it is
RECURSIVE CdSetLoop(_, _, _, _)
CdSetLoop(linked_list, i, entries, slots) ==
    IF i > Len(linked_list) THEN [err |-> "none", entries |-> entries, slots |-> slots]
    ELSE LET page == _read_directory(ClusterStart(linked_list[i]))
         IN  IF page.err # "none"
             THEN [err |-> page.err, entries |-> entries, slots |-> slots]
             ELSE CdSetLoop(linked_list, i + 1, entries \o page.val,
                            slots \o page.slots)

\* _cd_set_current_entries reading the first cluster of the chain only
_cd_set_current_entries_first(linked_list) ==
    CdSetLoop(SubSeq(linked_list, 1, 1), 1, <<>>, <<>>)

\* self._cd_set_current_entries(linked_list)
_cd_set_current_entries(linked_list) == CdSetLoop(linked_list, 1, <<>>, <<>>)

-----------------------------------------------------------------------------
(* Fat16Reader: file content *)

FileInfo(filename, extension, filesize, bytes) ==
    [filename |-> filename, extension |-> extension, filesize |-> filesize,
     bytes |-> bytes]

\* the for loop of _compose_file from position i: file_bytes after the loop
RECURSIVE ComposeLoop(_, _, _, _)
ComposeLoop(clusters, i, bytes, file_bytes) ==
    IF i > Len(clusters) THEN file_bytes
    ELSE LET cluster_bytes == _cluster_size * _sector_size
             cluster_start == ClusterStart(clusters[i])
         IN  IF bytes >= cluster_bytes
             THEN ComposeLoop(clusters, i + 1, bytes - cluster_bytes,
                              Append(file_bytes,
                                     Slice(image, cluster_start,
                                           cluster_start + cluster_bytes)))
             ELSE ComposeLoop(clusters, i + 1, bytes,
                              Append(file_bytes,
                                     Slice(image, cluster_start,
                                           cluster_start + bytes)))

\* which element of file_bytes becomes file.bytes
ComposeResult(file_bytes) ==
    IF file_bytes = <<>> THEN Raise("IndexError") ELSE Ok(file_bytes[1])

\* self._compose_file(clusters_list, entry)
_compose_file(clusters, entry) ==
    LET bytes == ComposeResult(ComposeLoop(clusters, 1, entry.filesize, <<>>))
    IN  IF bytes.err # "none" THEN Raise(bytes.err)
        ELSE Ok(FileInfo(entry.filename, entry.extension, entry.filesize, bytes.val))

-----------------------------------------------------------------------------
(* Fat16Reader: shell commands *)

NoError == "none"

\* CdEnter without the else branch: an empty chain is read like any other
CdEnterNoRoot(entry, st) ==
    LET clusters_linked_list == _get_clusters_list(entry)
    IN  IF clusters_linked_list.err # NoError
        THEN [st EXCEPT !.err = clusters_linked_list.err]
        ELSE LET set == _cd_set_current_entries(clusters_linked_list.val)
             IN  [cur |-> set.entries,
                  source |-> [chain |-> clusters_linked_list.val, slots |-> set.slots],
                  found |-> set.err = NoError,
                  err |-> set.err]

\* the body of cd's if statement for a matching entry: the new
\* self._current_entries, found, and the exception that ends the call
CdEnter(entry, st) ==
    LET clusters_linked_list == _get_clusters_list(entry)
    IN  IF clusters_linked_list.err # NoError
        THEN [st EXCEPT !.err = clusters_linked_list.err]
        ELSE IF Len(clusters_linked_list.val) > 0
        THEN LET set == _cd_set_current_entries(clusters_linked_list.val)
             IN  [cur |-> set.entries,
                  source |-> [chain |-> clusters_linked_list.val, slots |-> set.slots],
                  found |-> set.err = NoError,
                  err |-> set.err]
        ELSE LET root == _read_directory(_root_directory_offset)
             IN  IF root.err # NoError
                 THEN [st EXCEPT !.err = root.err]
                 ELSE [cur |-> root.val,
                       source |-> [chain |-> <<>>, slots |-> root.slots],
                       found |-> TRUE,
                       err |-> NoError]

\* the for loop of cd from position i of the list it iterates
RECURSIVE CdLoop(_, _, _, _)
CdLoop(entries, i, directory_name, st) ==
    IF i > Len(entries) \/ st.err # NoError THEN st
    ELSE LET entry == entries[i]
         IN  IF In("directory", entry.attributes) /\ entry.filename = directory_name
             THEN CdLoop(entries, i + 1, directory_name, CdEnter(entry, st))
             ELSE CdLoop(entries, i + 1, directory_name, st)

\* how cd ends once its loop is over
CdOutcome(st) ==
    IF st.err # NoError THEN st.err
    ELSE IF ~st.found /\ do_print_on_commands THEN "None"
    ELSE IF ~st.found /\ ~do_print_on_commands THEN "NotADirectoryException"
    ELSE "ok"

\* the for loop of open_file from position i; file is <<>> while the local
\* variable file is unbound
RECURSIVE OpenLoop(_, _, _, _)
OpenLoop(entries, i, filename, st) ==
    IF i > Len(entries) \/ st.err # NoError THEN st
    ELSE LET entry == entries[i]
         IN  IF entry.filename = filename
             THEN IF In("archive", entry.attributes) \/ In("read_only", entry.attributes)
                  THEN LET clusters == _get_clusters_list(entry)
                           file == _compose_file(clusters.val, entry)
                       IN  IF clusters.err # NoError
                           THEN [st EXCEPT !.found = TRUE, !.err = clusters.err]
                           ELSE IF file.err # NoError
                           THEN [st EXCEPT !.found = TRUE, !.err = file.err]
                           ELSE OpenLoop(entries, i + 1, filename,
                                         [found |-> TRUE, file |-> <<file.val>>,
                                          err |-> NoError])
                  ELSE OpenLoop(entries, i + 1, filename, [st EXCEPT !.found = TRUE])
             ELSE OpenLoop(entries, i + 1, filename, st)

\* how open_file ends once its loop is over
OpenOutcome(st) ==
    IF st.err # NoError THEN st.err
    ELSE IF ~st.found /\ do_print_on_commands THEN "None"
    ELSE IF ~st.found /\ ~do_print_on_commands THEN "NotAFileException"
    ELSE IF st.file = <<>> THEN "UnboundLocalError"
    ELSE "ok"

-----------------------------------------------------------------------------
(* Images: the byte layout the class comment describes, built from a few   *)
(* parameters.  Sizes are kept small: one 32-byte sector holds the boot    *)
(* sector, one sector holds a FAT copy.                                    *)

RootEntries == 3

SectorsPerCluster == 4

NumClusters == 3

SectorSize == _entry_size

ClusterBytes == SectorsPerCluster * SectorSize

ClusterSlots == ClusterBytes \div _entry_size

LastCluster == _fat_cluster_read_start + NumClusters - 1

\* the boot sector fields other than the root entry count
Boot == [reserved_sectors |-> 1, fat_size |-> 1, fat_copies |-> 2]

Zeros(n) == [i \in 1..n |-> 0]

Le16(v) == <<v % 256, (v \div 256) % 256>>

Le32(v) == <<v % 256, (v \div 256) % 256, (v \div 65536) % 256, (v \div 16777216) % 256>>

PadSpaces(s, n) == [i \in 1..n |-> IF i <= Len(s) THEN s[i] ELSE 32]

\* one 32-byte directory slot
EncodeEntry(e) ==
    PadSpaces(e.name, 8) \o PadSpaces(e.ext, 3) \o <<e.attr>> \o <<0, 0>>
    \o Le16(e.time) \o Le16(e.date) \o Zeros(8) \o Le16(e.cluster) \o Le32(e.size)

RECURSIVE EncodeEntries(_)
EncodeEntries(es) ==
    IF es = <<>> THEN <<>> ELSE EncodeEntry(Head(es)) \o EncodeEntries(Tail(es))

\* a directory region of the given number of slots: the entries, then zeros
DirRegion(es, slots) ==
    LET kept == SubSeq(es, 1, Min(Len(es), slots))
    IN  EncodeEntries(kept) \o Zeros((slots - Len(kept)) * _entry_size)

Entry(name, ext, attr, cluster, size) ==
    [name |-> name, ext |-> ext, attr |-> attr, time |-> 4660, date |-> 22136,
     cluster |-> cluster, size |-> size]

DirD(c) == Entry(<<68>>, <<>>, 16, c, 0)

FileF(c, size) == Entry(<<70>>, <<84, 88, 84>>, 32, c, size)

FileG(c, size) == Entry(<<71>>, <<>>, 1, c, size)

Dot(c) == Entry(<<46>>, <<>>, 16, c, 0)

DotDot(c) == Entry(<<46, 46>>, <<>>, 16, c, 0)

Volume == Entry(<<86>>, <<>>, 8, 0, 0)

\* a deleted file: first name byte 0xE5
Deleted == Entry(<<229, 88>>, <<>>, 32, 0, 0)

\* es, then volume entries up to a full region of the given number of slots
Full(es, slots) == [i \in 1..slots |-> IF i <= Len(es) THEN es[i] ELSE Volume]

BootSector(root_entries) ==
    LET n == Boot.reserved_sectors * SectorSize
        field(o) ==
            IF o \in {11, 12} THEN Le16(SectorSize)[o - 10]
            ELSE IF o = 13 THEN SectorsPerCluster
            ELSE IF o \in {14, 15} THEN Le16(Boot.reserved_sectors)[o - 13]
            ELSE IF o = 16 THEN Boot.fat_copies
            ELSE IF o \in {17, 18} THEN Le16(root_entries)[o - 16]
            ELSE IF o \in {22, 23} THEN Le16(Boot.fat_size)[o - 21]
            ELSE 0
    IN  [i \in 1..n |-> field(i - 1)]

\* the FAT: clusters 2..LastCluster link upwards, the chain is cut after
\* cluster k and the last cluster holds endv
FatValue(c, k, endv) ==
    IF c = 0 THEN 65528
    ELSE IF c = 1 THEN 65535
    ELSE IF c > LastCluster THEN 0
    ELSE IF c = LastCluster THEN endv
    ELSE IF c = k THEN 65535
    ELSE c + 1

FatCopy(k, endv) ==
    LET n == (Boot.fat_size * SectorSize) \div 2
    IN  [i \in 1..(2 * n) |-> Le16(FatValue((i - 1) \div 2, k, endv))[((i - 1) % 2) + 1]]

RECURSIVE Repeat(_, _)
Repeat(b, n) == IF n = 0 THEN <<>> ELSE b \o Repeat(b, n - 1)

\* file data: letters, different in every cluster
DataCluster(c) == [i \in 1..ClusterBytes |-> 97 + ((7 * c + i) % 26)]

RootOf(p) ==
    CASE p.rootv = "plain" -> <<DirD(p.dc), FileF(p.fc, p.fs)>>
      [] p.rootv = "empty" -> <<>>
      [] p.rootv = "full" -> Full(<<DirD(p.dc), FileF(p.fc, p.fs)>>, RootEntries)
      [] p.rootv = "twice" -> <<DirD(p.dc), DirD(0)>>
      [] p.rootv = "twice0" -> <<DirD(0), DirD(p.dc)>>

PageOf(p) ==
    CASE p.pagev = "plain" -> <<Dot(p.dc), DotDot(0), FileG(LastCluster, 3)>>
      [] p.pagev = "full" -> Full(<<Dot(p.dc), DotDot(0)>>, ClusterSlots)
      [] p.pagev = "twice" -> <<DotDot(0), DotDot(p.dc)>>
      [] p.pagev = "deleted" -> <<DotDot(0), Deleted>>

\* cluster 2 holds the page of directory D, cluster 3 a second page or
\* file data, the others file data
ClusterOf(p, c) ==
    IF c = _fat_cluster_read_start THEN DirRegion(PageOf(p), ClusterSlots)
    ELSE IF c = _fat_cluster_read_start + 1 /\ p.c3 = "dir"
    THEN DirRegion(<<FileF(LastCluster, 2)>>, ClusterSlots)
    ELSE DataCluster(c)

RECURSIVE ClustersFrom(_, _)
ClustersFrom(p, c) ==
    IF c > LastCluster THEN <<>> ELSE ClusterOf(p, c) \o ClustersFrom(p, c + 1)

\* the whole image, cut to p.cut bytes when p.cut > 0
ImageOf(p) ==
    LET whole == BootSector(RootEntries)
                 \o Repeat(FatCopy(p.k, p.endv), Boot.fat_copies)
                 \o DirRegion(RootOf(p), RootEntries)
                 \o ClustersFrom(p, _fat_cluster_read_start)
    IN  IF p.cut > 0 THEN SubSeq(whole, 1, Min(p.cut, Len(whole))) ELSE whole

RootOffset == (Boot.reserved_sectors + Boot.fat_size * Boot.fat_copies) * SectorSize

DataOffset == RootOffset + RootEntries * _entry_size

P0 == [k |-> 2, endv |-> 65528, dc |-> 2, fc |-> 3, fs |-> 5, rootv |-> "plain",
       pagev |-> "plain", c3 |-> "data", cut |-> 0]

EndValues == {0, 65527, 65528, 65531, 65535, 2}

Sizes == {0, 5, ClusterBytes, ClusterBytes + 5, 2 * ClusterBytes, 2 * ClusterBytes + 5}

Params ==
    {[P0 EXCEPT !.k = k, !.endv = e, !.c3 = c] :
        k \in 2..LastCluster, e \in EndValues, c \in {"data", "dir"}}
    \cup {[P0 EXCEPT !.fs = z, !.fc = f, !.k = k] :
        z \in Sizes, f \in {0, 3}, k \in {2, 3}}
    \cup {[P0 EXCEPT !.dc = d, !.k = k, !.c3 = "dir"] :
        d \in {0, 2, 3, LastCluster + 1}, k \in {2, 3}}
    \cup {[P0 EXCEPT !.rootv = r, !.pagev = g, !.k = k] :
        r \in {"plain", "empty", "full", "twice", "twice0"},
        g \in {"plain", "full", "twice", "deleted"}, k \in {2, 3}}
    \cup {[P0 EXCEPT !.cut = n, !.rootv = r] :
        n \in {RootOffset + 1, RootOffset + 2 * _entry_size + 1, DataOffset,
               DataOffset + ClusterBytes},
        r \in {"plain", "empty"}}

Images == {ImageOf(p) : p \in Params}

\* the names the commands are called with: "", "D", "F", "G", "..", "."
Names == {<<>>, <<68>>, <<70>>, <<71>>, <<46, 46>>, <<46>>}

-----------------------------------------------------------------------------
(* The reader as a state machine *)

\* a direct _get_clusters_list call is followed for at most this many clusters
MaxWalk == (Boot.fat_size * SectorSize) \div 2 + 1

Result(op, arg, outcome, file) ==
    [op |-> op, arg |-> arg, outcome |-> outcome, before |-> _current_entries,
     file |-> file]

\* Fat16Reader(file_path, do_print_on_commands), for the images that load
Init ==
    /\ image \in Images
    /\ do_print_on_commands \in BOOLEAN
    /\ volume_id = <<>>
    /\ _read_boot_sector.err = NoError
    /\ _reserved_sectors = _read_boot_sector.val.reserved_sectors
    /\ _sector_size = _read_boot_sector.val.sector_size
    /\ _cluster_size = _read_boot_sector.val.cluster_size
    /\ _fat_offset = _read_boot_sector.val.fat_offset
    /\ _fat_size = _read_boot_sector.val.fat_size
    /\ _fat_copies = _read_boot_sector.val.fat_copies
    /\ _root_directory_offset = _read_boot_sector.val.root_directory_offset
    /\ _root_directory_entries = _read_boot_sector.val.root_directory_entries
    /\ _root_directory_size = _read_boot_sector.val.root_directory_size
    /\ _clusters_offset = _read_boot_sector.val.clusters_offset
    /\ _current_root = _root_directory_offset
    /\ _read_directory(_current_root).err = NoError
    /\ _current_entries = _read_directory(_current_root).val
    /\ listing_source = [chain |-> <<>>, slots |-> _read_directory(_current_root).slots]
    /\ result = [op |-> "init", arg |-> <<>>, outcome |-> "ok", before |-> <<>>,
                 file |-> <<>>]
    /\ walk_pc = "idle"
    /\ clusters_list = <<>>
    /\ next_cluster_tuple = <<FALSE, 0>>

\* a command can start: no call is in progress and none has failed to return
Ready == walk_pc = "idle" /\ result.outcome # "nontermination"

\* ls()
Ls ==
    /\ Ready
    /\ result' = Result("ls", <<>>, "ok", <<>>)
    /\ UNCHANGED <<image, do_print_on_commands, volume_id, geometry, _current_root,
                   _current_entries, walk, listing_source>>

\* cd(directory_name)
Cd(directory_name) ==
    /\ Ready
    /\ LET st == CdLoop(_current_entries, 1, directory_name,
                        [cur |-> _current_entries, source |-> listing_source,
                         found |-> FALSE, err |-> NoError])
       IN  /\ _current_entries' = st.cur
           /\ listing_source' = st.source
           /\ result' = Result("cd", directory_name, CdOutcome(st), <<>>)
    /\ UNCHANGED <<image, do_print_on_commands, volume_id, geometry, _current_root,
                   walk>>

\* open_file(filename)
OpenFile(filename) ==
    /\ Ready
    /\ LET st == OpenLoop(_current_entries, 1, filename,
                          [found |-> FALSE, file |-> <<>>, err |-> NoError])
       IN  result' = Result("open_file", filename, OpenOutcome(st),
                            IF OpenOutcome(st) = "ok" THEN st.file ELSE <<>>)
    /\ UNCHANGED <<image, do_print_on_commands, volume_id, geometry, _current_root,
                   _current_entries, walk, listing_source>>

\* _get_clusters_list(entry) called on the i-th current entry, up to the
\* first test of its while loop
GetClustersListCall(i) ==
    /\ Ready
    /\ i \in DOMAIN _current_entries
    /\ LET entry == _current_entries[i]
           tuple == _check_next_in_fat(entry.cluster_number)
       IN  IF entry.cluster_number = 0
           THEN /\ walk_pc' = "returned"
                /\ clusters_list' = <<>>
                /\ UNCHANGED next_cluster_tuple
           ELSE /\ clusters_list' = <<entry.cluster_number>>
                /\ IF tuple.err # NoError
                   THEN walk_pc' = "raised" /\ UNCHANGED next_cluster_tuple
                   ELSE walk_pc' = "loop" /\ next_cluster_tuple' = tuple.val
    /\ UNCHANGED <<image, do_print_on_commands, volume_id, geometry, _current_root,
                   _current_entries, result, listing_source>>

\* one iteration of the while loop of _get_clusters_list
WalkStep ==
    /\ walk_pc = "loop"
    /\ next_cluster_tuple[1]
    /\ Len(clusters_list) < MaxWalk
    /\ clusters_list' = Append(clusters_list, next_cluster_tuple[2])
    /\ LET tuple == _check_next_in_fat(next_cluster_tuple[2])
       IN  IF tuple.err # NoError
           THEN walk_pc' = "raised" /\ UNCHANGED next_cluster_tuple
           ELSE walk_pc' = "loop" /\ next_cluster_tuple' = tuple.val
    /\ UNCHANGED <<image, do_print_on_commands, volume_id, geometry, _current_root,
                   _current_entries, result, listing_source>>

\* the while loop ends and _get_clusters_list returns clusters_list
WalkReturn ==
    /\ walk_pc = "loop"
    /\ ~next_cluster_tuple[1]
    /\ walk_pc' = "returned"
    /\ UNCHANGED <<image, do_print_on_commands, volume_id, geometry, _current_root,
                   _current_entries, result, listing_source, clusters_list,
                   next_cluster_tuple>>

\* the caller takes the list or the exception
WalkDone ==
    /\ walk_pc \in {"returned", "raised"}
    /\ walk_pc' = "idle"
    /\ clusters_list' = <<>>
    /\ next_cluster_tuple' = <<FALSE, 0>>
    /\ UNCHANGED <<image, do_print_on_commands, volume_id, geometry, _current_root,
                   _current_entries, result, listing_source>>

Next ==
    \/ Ls
    \/ \E name \in Names : Cd(name)
    \/ \E name \in Names : OpenFile(name)
    \/ \E i \in 1..(RootEntries + NumClusters * ClusterSlots) : GetClustersListCall(i)
    \/ WalkStep
    \/ WalkReturn
    \/ WalkDone

Spec == Init /\ [][Next]_vars

-----------------------------------------------------------------------------
(* Vocabulary of the properties *)

IsFile(e) == In("archive", e.attributes) \/ In("read_only", e.attributes)

IsDirectory(e) == In("directory", e.attributes)

\* the positions of list whose entry has this name and is a file / a directory
FileMatches(list, name) ==
    {i \in DOMAIN list : list[i].filename = name /\ IsFile(list[i])}

DirMatches(list, name) ==
    {i \in DOMAIN list : list[i].filename = name /\ IsDirectory(list[i])}

Last(S) == CHOOSE i \in S : \A j \in S : j <= i

NameMatches(list, name) == {i \in DOMAIN list : list[i].filename = name}

CapacityBytes == _cluster_size * _sector_size

\* the number of 16-bit entries of one FAT copy
FatEntries == (_fat_size * _sector_size) \div 2

\* the raw FAT value of a cluster, -1 outside the FAT
FatAt(c) ==
    IF c >= 0 /\ c < FatEntries
    THEN image[_fat_offset + 2 * c + 1] + 256 * image[_fat_offset + 2 * c + 2]
    ELSE -1

IsEndOfFile(v) == v >= 65528 /\ v <= 65535

\* the clusters linked from start up to an end-of-file value; <<>> when the
\* links leave the FAT, meet a free, reserved or bad value, or exceed n clusters
RECURSIVE LinkedChain(_, _)
LinkedChain(c, n) ==
    IF n = 0 \/ FatAt(c) < 2 \/ FatAt(c) = 65527 THEN <<>>
    ELSE IF IsEndOfFile(FatAt(c)) THEN <<c>>
    ELSE LET rest == LinkedChain(FatAt(c), n - 1)
         IN  IF rest = <<>> THEN <<>> ELSE <<c>> \o rest

EofChain(start) == IF start < 2 THEN <<>> ELSE LinkedChain(start, FatEntries)

\* the whole bytes of the clusters of a chain, one after the other
RECURSIVE ChainBytes(_)
ChainBytes(chain) ==
    IF chain = <<>> THEN <<>>
    ELSE LET base == _clusters_offset + (Head(chain) - 2) * CapacityBytes
         IN  SubSeq(image, base + 1, base + CapacityBytes) \o ChainBytes(Tail(chain))

\* every cluster of the chain lies whole inside the image's data area
InDataArea(chain) ==
    \A i \in DOMAIN chain :
        /\ chain[i] >= 2
        /\ _clusters_offset + (chain[i] - 1) * CapacityBytes <= Len(image)

\* how many clusters a file of this size occupies
ClustersFor(size) == (size + CapacityBytes - 1) \div CapacityBytes

\* the one file entry open_file(result.arg) found, when there is exactly one
\* entry of that name
TheFile == result.before[Last(FileMatches(result.before, result.arg))]

OneFileOpened ==
    /\ result.op = "open_file"
    /\ Cardinality(NameMatches(result.before, result.arg)) = 1
    /\ FileMatches(result.before, result.arg) # {}

\* C1: open_file on a file entry whose chain is well-formed (ends in an
\* end-of-file value, lies in the data area) and has exactly the clusters its
\* size needs returns size_bytes bytes: the clusters' bytes in chain order,
\* the last cluster cut to the remaining count.
C1_ContentIsWholeFile ==
    (/\ OneFileOpened
     /\ EofChain(TheFile.cluster_number) # <<>> \/ TheFile.filesize = 0
     /\ InDataArea(EofChain(TheFile.cluster_number))
     /\ Len(EofChain(TheFile.cluster_number)) = ClustersFor(TheFile.filesize))
    => /\ result.outcome = "ok"
       /\ Len(result.file[1].bytes) = TheFile.filesize
       /\ result.file[1].bytes
            = SubSeq(ChainBytes(EofChain(TheFile.cluster_number)), 1, TheFile.filesize)

\* C2: a chain walk never holds more clusters than one FAT copy has entries
\* (a longer list can only come from links that form a cycle).
C2_WalkIsBounded == Len(clusters_list) <= FatEntries

\* C3: a walk that starts on a chain of k linked clusters ending in a value of
\* 0xFFF8..0xFFFF returns exactly those k clusters in link order.
C3_WalkReturnsChain ==
    (/\ walk_pc \in {"returned", "raised"}
     /\ clusters_list # <<>>
     /\ EofChain(clusters_list[1]) # <<>>)
    => /\ walk_pc = "returned"
       /\ clusters_list = EofChain(clusters_list[1])

\* C4: open_file (not in print mode) with no entry that has the name and the
\* archive or read_only attribute fails with NotAFile, and with nothing else,
\* and leaves current_entries alone.
C4_NoFileIsNotAFile ==
    (/\ result.op = "open_file"
     /\ ~do_print_on_commands
     /\ FileMatches(result.before, result.arg) = {})
    => /\ result.outcome = "NotAFileException"
       /\ _current_entries = result.before

\* C5: cd (not in print mode) with no directory entry of that name fails with
\* NotADirectory; current_entries changes only when cd succeeds.
C5_CdFailureKeepsEntries ==
    (result.op = "cd" /\ ~do_print_on_commands)
    => /\ DirMatches(result.before, result.arg) = {}
            => result.outcome = "NotADirectoryException"
       /\ result.outcome # "ok" => _current_entries = result.before

\* C7: open_file on a file entry whose chain holds fewer bytes than
\* size_bytes fails with TruncatedFile.
C7_ShortChainIsTruncatedFile ==
    (/\ OneFileOpened
     /\ _get_clusters_list(TheFile).err = NoError
     /\ Len(_get_clusters_list(TheFile).val) * CapacityBytes < TheFile.filesize)
    => result.outcome = "TruncatedFile"

\* C10: every slot decoded into current_entries lies in the directory's own
\* storage: the root's slots for the root, a cluster of the chain otherwise,
\* and no slot is decoded twice.
C10_SlotsInsideDirectory ==
    LET slots == listing_source.slots
        chain == listing_source.chain
    IN  /\ \A i, j \in DOMAIN slots : slots[i] = slots[j] => i = j
        /\ \A i \in DOMAIN slots :
              /\ slots[i] + _entry_size <= Len(image)
              /\ IF chain = <<>>
                 THEN /\ slots[i] >= _root_directory_offset
                      /\ slots[i] + _entry_size
                           <= _root_directory_offset + _root_directory_size
                 ELSE \E k \in DOMAIN chain :
                         LET base == _clusters_offset + (chain[k] - 2) * CapacityBytes
                         IN  /\ slots[i] >= base
                             /\ slots[i] + _entry_size <= base + CapacityBytes

\* the entries of the slots from base up to the first slot whose first byte
\* is 0x00; <<>> when the image has no such slot
ListingAt(base) ==
    LET ends == {j \in 0..(Len(image) \div _entry_size) :
                    /\ base + j * _entry_size < Len(image)
                    /\ image[base + j * _entry_size + 1] = 0}
        n == CHOOSE j \in ends : \A k \in ends : j <= k
    IN  IF ends = {} THEN <<>>
        ELSE [j \in 1..n |-> _read_entry(base + (j - 1) * _entry_size).val]

\* the listing read from the fixed root-directory offset
RootListing == ListingAt(_root_directory_offset)

\* the listings of the clusters of a chain, one after the other
RECURSIVE ChainListing(_)
ChainListing(chain) ==
    IF chain = <<>> THEN <<>>
    ELSE ListingAt(_clusters_offset
                   + (Head(chain) - 2) * _cluster_size * _sector_size)
         \o ChainListing(Tail(chain))

CdSucceeded == result.op = "cd" /\ result.outcome = "ok"

\* the directory entries cd(result.arg) matched, and the last of them
CdMatches == DirMatches(result.before, result.arg)

LastMatch == result.before[Last(CdMatches)]

\* C6 as stated: a successful cd that matches a directory entry with
\* start_cluster 0 (in particular cd("..") inside a subdirectory of the root)
\* leaves the root listing in current_entries.
C6_AnyMatchWithClusterZero ==
    (/\ CdSucceeded
     /\ \E i \in CdMatches : result.before[i].cluster_number = 0)
    => _current_entries = RootListing

\* C6 amended: a successful cd whose last matching directory entry has
\* start_cluster 0 leaves the root listing in current_entries, so cd("..")
\* from a subdirectory whose last ".." entry has start_cluster 0 restores it.
C6_LastMatchWithClusterZero ==
    (/\ CdSucceeded
     /\ CdMatches # {}
     /\ LastMatch.cluster_number = 0)
    => /\ _current_entries = RootListing
       /\ listing_source.chain = <<>>

\* cd("..") has brought a subdirectory's listing back to the root listing
C6_Witness ==
    /\ CdSucceeded
    /\ result.arg = <<46, 46>>
    /\ CdMatches # {}
    /\ LastMatch.cluster_number = 0
    /\ result.before # RootListing
    /\ \E i \in DOMAIN RootListing :
          /\ IsDirectory(RootListing[i])
          /\ RootListing[i].cluster_number # 0
          /\ _get_clusters_list(RootListing[i]).err = NoError
          /\ result.before = ChainListing(_get_clusters_list(RootListing[i]).val)
    /\ _current_entries = RootListing

\* the geometry as the boot sector bytes give it
GeometryFromBoot ==
    /\ _reserved_sectors = image[15] + 256 * image[16]
    /\ _sector_size = image[12] + 256 * image[13]
    /\ _cluster_size = image[14]
    /\ _fat_size = image[23] + 256 * image[24]
    /\ _fat_copies = image[17]
    /\ _root_directory_entries = image[18] + 256 * image[19]
    /\ _fat_offset = _reserved_sectors * _sector_size
    /\ _root_directory_offset = _fat_offset + _fat_size * _fat_copies * _sector_size
    /\ _clusters_offset = _root_directory_offset + _root_directory_entries * 32

\* C8 as stated: the geometry equations hold and the data area starts inside
\* the image.
C8_DataAreaInsideImage ==
    /\ GeometryFromBoot
    /\ _clusters_offset <= Len(image)

\* C8 amended: the geometry equations hold in every state, the root directory
\* starts inside the image, and no step changes the geometry or the image.
C8_GeometryFixed ==
    /\ [](GeometryFromBoot /\ _root_directory_offset < Len(image))
    /\ [][geometry' = geometry /\ image' = image]_vars

\* a command has run on an image that ends before its data area
C8_Witness ==
    /\ result.op \in {"cd", "open_file", "ls"}
    /\ GeometryFromBoot
    /\ _clusters_offset > Len(image)

\* C9 as stated: after a successful cd, current_entries is the chain listing
\* of every matching directory entry with a non-empty chain.
C9_AnyMatchListing ==
    CdSucceeded
    => \A i \in CdMatches :
          _get_clusters_list(result.before[i]).val # <<>>
          => _current_entries
               = ChainListing(_get_clusters_list(result.before[i]).val)

\* C9 amended: after a successful cd whose last matching directory entry has
\* the non-empty chain c1..cn, current_entries is the listings of c1..cn one
\* after the other.
C9_LastMatchListing ==
    (/\ CdSucceeded
     /\ CdMatches # {}
     /\ _get_clusters_list(LastMatch).val # <<>>)
    => /\ listing_source.chain = _get_clusters_list(LastMatch).val
       /\ _current_entries = ChainListing(_get_clusters_list(LastMatch).val)

\* a directory of two clusters has been entered, both with entries
C9_Witness ==
    /\ CdSucceeded
    /\ CdMatches # {}
    /\ Len(_get_clusters_list(LastMatch).val) >= 2
    /\ \A i \in DOMAIN _get_clusters_list(LastMatch).val :
          ChainListing(<<_get_clusters_list(LastMatch).val[i]>>) # <<>>
    /\ _current_entries = ChainListing(_get_clusters_list(LastMatch).val)

====
